---- MODULE Spec2Model ----
(***************************************************************************)
(* Local file store of src/lib/file-storage.ts: upload, read, delete,      *)
(* rename and existence check of files kept under STORAGE_BASE_PATH, and   *)
(* the extension -> MIME type mapping.                                     *)
(*                                                                         *)
(* Strings are sequences of one-character strings; buffers are sequences   *)
(* of bytes.  The filesystem is the set of regular files (full path ->     *)
(* content) plus the existence of the two directories the module uses.     *)
(***************************************************************************)
EXTENDS Naturals, Sequences, FiniteSets

VARIABLES
    now,            \* Date.now(), in milliseconds
    writable,       \* the volume accepts mkdir / write / unlink / rename
    baseExists,     \* STORAGE_BASE_PATH is a directory
    uploadsExists,  \* UPLOADS_FOLDER is a directory
    files,          \* regular files: full path -> content
    calls,          \* uploadFile invocations in flight, by call slot
    last,           \* the response of the most recent step
    ctName,         \* getContentType: the argument
    ctResult        \* getContentType: the value returned

vars == <<now, writable, baseExists, uploadsExists, files, calls, last,
          ctName, ctResult>>

(* ------------------------------ bounds -------------------------------- *)

\* first reading of the clock
Epoch == 9
\* how many milliseconds the clock advances
MaxTicks == 1
\* longest stem of a getContentType argument
MaxStem == 1

Times == Epoch..(Epoch + MaxTicks)

\* the two uploadFile invocations that may be in flight together
Calls == {1, 2}

(* ------------------------------ strings ------------------------------- *)

LowerChars == <<"a","b","c","d","e","f","g","h","i","j","k","l","m",
                "n","o","p","q","r","s","t","u","v","w","x","y","z">>
UpperChars == <<"A","B","C","D","E","F","G","H","I","J","K","L","M",
                "N","O","P","Q","R","S","T","U","V","W","X","Y","Z">>
DigitChars == <<"0","1","2","3","4","5","6","7","8","9">>

Range(s) == {s[i] : i \in DOMAIN s}

\* String.prototype.toLowerCase, one character
ToLowerChar(c) ==
    IF \E i \in DOMAIN UpperChars : UpperChars[i] = c
    THEN LowerChars[CHOOSE i \in DOMAIN UpperChars : UpperChars[i] = c]
    ELSE c

ToLowerCase(s) == [i \in DOMAIN s |-> ToLowerChar(s[i])]

\* `${timestamp}`: the decimal digits of a non-negative integer
RECURSIVE Digits(_)
Digits(n) ==
    IF n < 10 THEN <<DigitChars[n + 1]>>
    ELSE Digits(n \div 10) \o <<DigitChars[(n % 10) + 1]>>

\* the character class [a-zA-Z0-9.-]
AllowedChars ==
    Range(LowerChars) \cup Range(UpperChars) \cup Range(DigitChars) \cup {".", "-"}

\* a sanitizer that deletes the characters it should replace
SanitizeDrop(fileName) == SelectSeq(fileName, LAMBDA c : c \in AllowedChars)

\* fileName.replace(/[^a-zA-Z0-9.-]/g, "_")
Sanitize(fileName) ==
    [i \in DOMAIN fileName |->
        IF fileName[i] \in AllowedChars THEN fileName[i] ELSE "_"]

\* s.split('.'): the pieces between the dots (one piece when there is none)
RECURSIVE SplitDot(_)
SplitDot(s) ==
    IF \E i \in DOMAIN s : s[i] = "."
    THEN LET i == CHOOSE k \in DOMAIN s : s[k] = "." /\ \A j \in 1..(k - 1) : s[j] # "."
         IN <<SubSeq(s, 1, i - 1)>> \o SplitDot(SubSeq(s, i + 1, Len(s)))
    ELSE <<s>>

\* Array.prototype.pop: the last element
Pop(a) == a[Len(a)]

(* ------------------------------- paths -------------------------------- *)

Sep == "/"

\* process.env.STORAGE_PATH, here "/s"
StorageBasePath == <<"/","s">>
UploadsName == <<"u","p","l","o","a","d","s">>

\* path.join of two components neither of which holds "." or ".." segments
\* or doubled separators (none of the paths built here does): a zero-length
\* component is ignored, the others are joined by one separator
PathJoin(a, b) ==
    IF b = <<>> THEN a
    ELSE IF a = <<>> THEN b
    ELSE a \o <<Sep>> \o b

UploadsFolder == PathJoin(StorageBasePath, UploadsName)

\* `${timestamp}-${sanitizedFileName}`
UniqueFileName(timestamp, fileName) ==
    Digits(timestamp) \o <<"-">> \o Sanitize(fileName)

\* `uploads/${uniqueFileName}`
RelativePath(uniqueFileName) == UploadsName \o <<Sep>> \o uniqueFileName

\* index of the last separator of a path (0: none)
LastSep(p) ==
    IF \E i \in DOMAIN p : p[i] = Sep
    THEN CHOOSE i \in DOMAIN p : p[i] = Sep /\ \A j \in DOMAIN p : p[j] = Sep => j <= i
    ELSE 0

\* the directory an entry lives in
Dirname(p) == SubSeq(p, 1, LastSep(p) - 1)

(* ----------------------------- filesystem ----------------------------- *)

IsDir(base, uploads, p) ==
    \/ base /\ p = StorageBasePath
    \/ uploads /\ p = UploadsFolder

\* fs.access(p): the entry exists
AccessOk(base, uploads, fs, p) == IsDir(base, uploads, p) \/ p \in DOMAIN fs

\* fs.mkdir(UPLOADS_FOLDER, {recursive: true}): an existing directory is
\* success; a missing one is created unless the volume refuses
MkdirOk(uploads, w) == uploads \/ w

\* fs.writeFile(p, buffer): creates or truncates; the parent must exist
WriteOk(base, uploads, w, p) == w /\ IsDir(base, uploads, Dirname(p))

\* fs.readFile(p): a regular file only (a directory is EISDIR)
ReadOk(fs, p) == p \in DOMAIN fs

\* fs.unlink(p): a regular file only, on a volume that accepts it
UnlinkOk(fs, w, p) == w /\ p \in DOMAIN fs

\* fs.rename(old, new): old a regular file, the parent of new a directory
RenameOk(base, uploads, fs, w, old, new) ==
    w /\ old \in DOMAIN fs /\ IsDir(base, uploads, Dirname(new))

Without(fs, p) == [q \in DOMAIN fs \ {p} |-> fs[q]]
With(fs, p, buffer) == [q \in DOMAIN fs \cup {p} |-> IF q = p THEN buffer ELSE fs[q]]

\* a rename that copies and forgets to remove the source
RenamedCopy(fs, old, new) == With(fs, new, fs[old])

\* the files after an fs.rename that succeeded: new is replaced, old is
\* gone (old = new: nothing moves)
Renamed(fs, old, new) ==
    IF old = new THEN fs ELSE With(Without(fs, old), new, fs[old])

(* ------------------------------- errors ------------------------------- *)

None == "none"
StorageInitError == "Storage initialization failed"
UploadError == "File upload failed"
NotFoundError == "File not found"
ReadError == "File read failed"
RenameError == "File rename failed"

(* ------------------------------- inputs ------------------------------- *)

Buffers == {<<104, 105>>, <<0>>}

\* "a/Z-9." and "a_Z-9." sanitize to the same string
FileNames == {<<"a","/","Z","-","9",".">>, <<"a","_","Z","-","9",".">>}

\* concurrent uploads also use a name that sanitizes to another string
MoreFileNames == FileNames \cup {<<"9"," ">>}

\* the relative paths a caller may hold: every path the store can hand out,
\* and the uploads folder itself
RelPaths ==
    {RelativePath(UniqueFileName(t, n)) : t \in Times, n \in FileNames}
        \cup {UploadsName}

StemChars == {"a", "."}
Stems == UNION {[1..n -> StemChars] : n \in 0..MaxStem}

Extensions ==
    {<<>>, <<"p","d","f">>, <<"P","D","F">>, <<"P","d","f">>, <<"p","n","g">>,
     <<"P","N","G">>, <<"j","p","g">>, <<"J","p","G">>, <<"j","p","e","g">>,
     <<"J","P","E","G">>, <<"t","i","f","f">>, <<"T","I","F","F">>,
     <<"t","i","f">>, <<"T","i","f">>, <<"t","x","t">>, <<"p","d">>,
     <<"p","d","f","x">>, <<"g","z">>}

\* getContentType arguments: a stem, a dot or none, an extension
ContentTypeNames ==
    {stem \o dot \o ext : stem \in Stems, dot \in {<<>>, <<".">>}, ext \in Extensions}

(* ------------------------------ responses ----------------------------- *)

\* op: the step; call: the uploadFile invocation (0: none); path, name: its
\* arguments; err: the error thrown (None: it returned); ret: the path
\* returned; data: the buffer returned; flag: the boolean returned
\* (deleteFile: whether the unlink succeeded, which only the log shows);
\* note: what the step followed ("created": an initializeStorage that made
\* the base directory; "fresh": a checkStorage right after one that
\* succeeded in doing so; "repeat": a deleteFile right after a deleteFile
\* of the same path, "repeat-removed" when that one removed the file)
Resp(op, call, path, name, err, ret, data, flag, note) ==
    [op |-> op, call |-> call, path |-> path, name |-> name, err |-> err,
     ret |-> ret, data |-> data, flag |-> flag, note |-> note]

Plain(op) == Resp(op, 0, <<>>, <<>>, None, <<>>, <<>>, FALSE, "")

\* made: this call's initializeStorage found the uploads folder missing
IdleCall == [pc |-> "idle", buffer |-> <<>>, fileName |-> <<>>, timestamp |-> 0,
             made |-> FALSE, err |-> None, ret |-> <<>>]

(* ------------------------------ handlers ------------------------------ *)

FullPath(relativePath) == PathJoin(StorageBasePath, relativePath)

\* initializeStorage(): the error it throws
InitializeStorageErr(uploads, w) ==
    IF MkdirOk(uploads, w) THEN None ELSE StorageInitError

\* an uploadFile that does not call initializeStorage
UploadEnsuresSkipped(uploads) == uploads

\* uploadFile, line 32: whether the uploads folder exists once
\* `await initializeStorage()` has returned
UploadEnsures(uploads) == TRUE

\* uploadFile, lines 35-46, renameFile, lines 119-123: the relative path
\* derived from the clock and the name
NewRelativePath(timestamp, fileName) ==
    RelativePath(UniqueFileName(timestamp, fileName))

\* an uploadFile that writes the file without its timestamp prefix
UploadTargetNoStamp(timestamp, fileName) ==
    PathJoin(UploadsFolder, Sanitize(fileName))

\* uploadFile, line 40: where the buffer is written
UploadTarget(timestamp, fileName) ==
    PathJoin(UploadsFolder, UniqueFileName(timestamp, fileName))

\* a write that refuses to replace a file (the "wx" flag)
UploadWriteOkExclusive(base, uploads, fs, w, p) ==
    WriteOk(base, uploads, w, p) /\ p \notin DOMAIN fs

\* uploadFile, line 43: the write does not look at what is already there
UploadWriteOk(base, uploads, fs, w, p) == WriteOk(base, uploads, w, p)

\* getFilePath(relativePath): the error it throws
GetFilePathErr(base, uploads, fs, relativePath) ==
    IF AccessOk(base, uploads, fs, FullPath(relativePath)) THEN None ELSE NotFoundError

\* readFile(relativePath): the error it throws.  The catch of lines 86-89
\* also catches what getFilePath threw and throws "File read failed" instead
ReadFileErr(base, uploads, fs, relativePath) ==
    IF GetFilePathErr(base, uploads, fs, relativePath) # None THEN ReadError
    ELSE IF ReadOk(fs, FullPath(relativePath)) THEN None
    ELSE ReadError

\* readFile(relativePath): the buffer it returns
ReadFileData(fs, relativePath) == fs[FullPath(relativePath)]

\* a deleteFile that rethrows what unlink threw
DeleteFileErrRethrown(unlinked) == IF unlinked THEN None ELSE "File deletion failed"

\* deleteFile: the error it throws, given whether the unlink succeeded
DeleteFileErr(unlinked) == None

\* a rename that creates its target before it knows the source exists
FilesAfterRenameTouching(fs, ok, old, new) ==
    IF ok THEN Renamed(fs, old, new) ELSE With(fs, new, <<>>)

\* renameFile: the files it leaves, given whether fs.rename succeeded
FilesAfterRename(fs, ok, old, new) ==
    IF ok THEN Renamed(fs, old, new) ELSE fs

\* a checkStorage that only probes
CheckStorageProbeOnly(base, uploads, w) == base

\* checkStorage(): the boolean it returns
CheckStorageResult(base, uploads, w) ==
    IF base THEN TRUE ELSE InitializeStorageErr(uploads, w) = None

PdfExt == <<"p","d","f">>
PngExt == <<"p","n","g">>
JpgExt == <<"j","p","g">>
JpegExt == <<"j","p","e","g">>
TiffExt == <<"t","i","f","f">>
TifExt == <<"t","i","f">>

\* the MIME type of an extension (the switch of lines 144-157)
TypeOfExt(ext) ==
    CASE ext = PdfExt -> "application/pdf"
      [] ext = PngExt -> "image/png"
      [] ext \in {JpgExt, JpegExt} -> "image/jpeg"
      [] ext \in {TiffExt, TifExt} -> "image/tiff"
      [] OTHER -> "application/octet-stream"

\* getContentType(fileName)
GetContentType(fileName) == TypeOfExt(Pop(SplitDot(ToLowerCase(fileName))))

(* ------------------------------- actions ------------------------------ *)

ctvars == <<ctName, ctResult>>

Step(resp) == last' = resp /\ UNCHANGED ctvars

InitializeStorage ==
    LET err == InitializeStorageErr(uploadsExists, writable) IN
    /\ baseExists' = (baseExists \/ err = None)
    /\ uploadsExists' = (uploadsExists \/ err = None)
    /\ Step([Plain("initializeStorage") EXCEPT
                !.err = err,
                !.note = IF err = None /\ ~baseExists THEN "created" ELSE ""])
    /\ UNCHANGED <<now, writable, files, calls>>

\* the call, and its `await initializeStorage()`
UploadBegin(c, buffer, fileName) ==
    LET err == InitializeStorageErr(uploadsExists, writable) IN
    /\ calls[c].pc = "idle"
    /\ IF err = None
       THEN /\ uploadsExists' = UploadEnsures(uploadsExists)
            /\ baseExists' = (baseExists \/ uploadsExists')
            /\ calls' = [calls EXCEPT ![c] =
                    [IdleCall EXCEPT !.pc = "stamp", !.buffer = buffer,
                                     !.fileName = fileName,
                                     !.made = ~uploadsExists]]
       ELSE /\ UNCHANGED <<baseExists, uploadsExists>>
            /\ calls' = [calls EXCEPT ![c] =
                    [IdleCall EXCEPT !.pc = "done", !.buffer = buffer,
                                     !.fileName = fileName, !.err = UploadError]]
    /\ Step([Plain("uploadFile.init") EXCEPT
                !.call = c, !.name = fileName,
                !.err = IF err = None THEN None ELSE UploadError])
    /\ UNCHANGED <<now, writable, files>>

\* lines 35-43: the clock is read, the path derived and the write issued
UploadStamp(c) ==
    /\ calls[c].pc = "stamp"
    /\ calls' = [calls EXCEPT ![c].pc = "write", ![c].timestamp = now]
    /\ Step([Plain("uploadFile.stamp") EXCEPT !.call = c, !.name = calls[c].fileName])
    /\ UNCHANGED <<now, writable, baseExists, uploadsExists, files>>

\* the write completes and uploadFile returns or throws
UploadWrite(c) ==
    LET target == UploadTarget(calls[c].timestamp, calls[c].fileName)
        ok == UploadWriteOk(baseExists, uploadsExists, files, writable, target)
        err == IF ok THEN None ELSE UploadError
        ret == IF ok THEN NewRelativePath(calls[c].timestamp, calls[c].fileName)
               ELSE <<>>
    IN
    /\ calls[c].pc = "write"
    /\ files' = IF ok THEN With(files, target, calls[c].buffer) ELSE files
    /\ calls' = [calls EXCEPT ![c].pc = "done", ![c].err = err, ![c].ret = ret]
    /\ Step([Plain("uploadFile") EXCEPT
                !.call = c, !.name = calls[c].fileName, !.err = err, !.ret = ret])
    /\ UNCHANGED <<now, writable, baseExists, uploadsExists>>

\* the caller takes the result; the slot is free for another call
UploadReturn(c) ==
    /\ calls[c].pc = "done"
    /\ calls' = [calls EXCEPT ![c] = IdleCall]
    /\ Step(Plain("uploadFile.return"))
    /\ UNCHANGED <<now, writable, baseExists, uploadsExists, files>>

GetFilePath(relativePath) ==
    LET err == GetFilePathErr(baseExists, uploadsExists, files, relativePath) IN
    /\ Step([Plain("getFilePath") EXCEPT
                !.path = relativePath, !.err = err,
                !.ret = IF err = None THEN FullPath(relativePath) ELSE <<>>])
    /\ UNCHANGED <<now, writable, baseExists, uploadsExists, files, calls>>

ReadFile(relativePath) ==
    LET err == ReadFileErr(baseExists, uploadsExists, files, relativePath) IN
    /\ Step([Plain("readFile") EXCEPT
                !.path = relativePath, !.err = err,
                !.data = IF err = None THEN ReadFileData(files, relativePath) ELSE <<>>])
    /\ UNCHANGED <<now, writable, baseExists, uploadsExists, files, calls>>

DeleteFile(relativePath) ==
    LET fullPath == FullPath(relativePath)
        unlinked == UnlinkOk(files, writable, fullPath)
    IN
    /\ files' = IF unlinked THEN Without(files, fullPath) ELSE files
    /\ Step([Plain("deleteFile") EXCEPT
                !.path = relativePath, !.err = DeleteFileErr(unlinked),
                !.flag = unlinked,
                !.note = IF last.op = "deleteFile" /\ last.path = relativePath
                         THEN (IF last.flag THEN "repeat-removed" ELSE "repeat")
                         ELSE ""])
    /\ UNCHANGED <<now, writable, baseExists, uploadsExists, calls>>

RenameFile(oldPath, newFileName) ==
    LET oldFullPath == FullPath(oldPath)
        newRelativePath == NewRelativePath(now, newFileName)
        newFullPath == FullPath(newRelativePath)
        ok == RenameOk(baseExists, uploadsExists, files, writable,
                       oldFullPath, newFullPath)
    IN
    /\ files' = FilesAfterRename(files, ok, oldFullPath, newFullPath)
    /\ Step([Plain("renameFile") EXCEPT
                !.path = oldPath, !.name = newFileName,
                !.err = IF ok THEN None ELSE RenameError,
                !.ret = IF ok THEN newRelativePath ELSE <<>>])
    /\ UNCHANGED <<now, writable, baseExists, uploadsExists, calls>>

CheckStorage ==
    LET created == ~baseExists /\ InitializeStorageErr(uploadsExists, writable) = None IN
    /\ baseExists' = (baseExists \/ created)
    /\ uploadsExists' = (uploadsExists \/ created)
    /\ Step([Plain("checkStorage") EXCEPT
                !.flag = CheckStorageResult(baseExists, uploadsExists, writable),
                !.note = IF last.op = "initializeStorage" /\ last.note = "created"
                         THEN "fresh" ELSE ""])
    /\ UNCHANGED <<now, writable, files, calls>>

\* getContentType(ctName) is evaluated
CallGetContentType ==
    /\ ctResult = ""
    /\ ctResult' = GetContentType(ctName)
    /\ UNCHANGED <<now, writable, baseExists, uploadsExists, files, calls, last, ctName>>

\* a millisecond passes
Tick ==
    /\ now < Epoch + MaxTicks
    /\ now' = now + 1
    /\ Step(Plain("tick"))
    /\ UNCHANGED <<writable, baseExists, uploadsExists, files, calls>>

\* the volume turns read-only, or writable again
Remount ==
    /\ writable' = ~writable
    /\ Step(Plain("remount"))
    /\ UNCHANGED <<now, baseExists, uploadsExists, files, calls>>

InitStore ==
    /\ now = Epoch
    /\ writable = TRUE
    /\ baseExists \in BOOLEAN
    /\ uploadsExists = FALSE
    /\ files = <<>>
    /\ calls = [c \in Calls |-> IdleCall]
    /\ last = Plain("start")

Init == InitStore /\ ctName = <<>> /\ ctResult = ""

\* a result that is ready is taken by its caller before anything else runs
Quiet == \A c \in Calls : calls[c].pc # "done"

\* one uploadFile at a time, every other operation between its steps
Next ==
    \/ Quiet /\ InitializeStorage
    \/ Quiet /\ \E buffer \in Buffers, fileName \in FileNames :
                    UploadBegin(1, buffer, fileName)
    \/ Quiet /\ UploadStamp(1)
    \/ Quiet /\ UploadWrite(1)
    \/ UploadReturn(1)
    \/ Quiet /\ \E relativePath \in RelPaths : GetFilePath(relativePath)
    \/ Quiet /\ \E relativePath \in RelPaths : ReadFile(relativePath)
    \/ Quiet /\ \E relativePath \in RelPaths : DeleteFile(relativePath)
    \/ Quiet /\ \E oldPath \in RelPaths, newFileName \in FileNames :
                    RenameFile(oldPath, newFileName)
    \/ Quiet /\ CheckStorage
    \/ Quiet /\ Tick
    \/ Quiet /\ Remount

Spec == Init /\ [][Next]_vars

\* two uploadFile calls interleave; their callers keep the results
NextUploads ==
    \/ \E c \in Calls, buffer \in Buffers, fileName \in MoreFileNames :
          UploadBegin(c, buffer, fileName)
    \/ \E c \in Calls : UploadStamp(c)
    \/ \E c \in Calls : UploadWrite(c)
    \/ Tick
    \/ Remount

SpecUploads == Init /\ [][NextUploads]_vars

\* getContentType on one argument
InitContentType == InitStore /\ ctName \in ContentTypeNames /\ ctResult = ""

NextContentType == CallGetContentType

SpecContentType == InitContentType /\ [][NextContentType]_vars

(* ------------------------------- claims ------------------------------- *)

IsDigit(c) == c \in Range(DigitChars)

\* what follows "uploads/" in a relative path
AfterUploads(relativePath) ==
    SubSeq(relativePath, Len(UploadsName) + 2, Len(relativePath))

HasUploadsPrefix(relativePath) ==
    /\ Len(relativePath) > Len(UploadsName)
    /\ SubSeq(relativePath, 1, Len(UploadsName) + 1) = UploadsName \o <<Sep>>

\* index of the first "-" of a string (0: none)
FirstDash(s) ==
    IF \E i \in DOMAIN s : s[i] = "-"
    THEN CHOOSE i \in DOMAIN s : s[i] = "-" /\ \A j \in 1..(i - 1) : s[j] # "-"
    ELSE 0

\* uploads/<digits>-<rest>: the digits are one or more, up to the first "-"
WellFormed(relativePath) ==
    /\ HasUploadsPrefix(relativePath)
    /\ LET u == AfterUploads(relativePath) IN
         /\ FirstDash(u) > 1
         /\ \A j \in 1..(FirstDash(u) - 1) : IsDigit(u[j])

\* the <rest> of uploads/<digits>-<rest>
NamePart(relativePath) ==
    LET u == AfterUploads(relativePath) IN SubSeq(u, FirstDash(u) + 1, Len(u))

\* C1: when uploadFile succeeds, the path it returns is
\* uploads/<digits>-<sanitized-name>, and readFile of that path, called
\* next, succeeds and returns the uploaded buffer byte for byte.
C1_UploadReadRoundTrip ==
    (last.op = "uploadFile" /\ last.err = None) =>
        /\ WellFormed(last.ret)
        /\ NamePart(last.ret) = Sanitize(last.name)
        /\ ReadFileErr(baseExists, uploadsExists, files, last.ret) = None
        /\ ReadFileData(files, last.ret) = calls[last.call].buffer

\* an upload of a name that needed sanitizing has just succeeded
C1_Witness ==
    /\ last.op = "uploadFile" /\ last.err = None
    /\ Sanitize(last.name) # last.name
    /\ calls[last.call].buffer = <<104, 105>>

\* C2 as stated: after a renameFile that succeeded, getFilePath of the new
\* path succeeds and getFilePath of the old path fails with NotFoundError,
\* whatever the millisecond the rename ran in.
C2_Original ==
    (last.op = "renameFile" /\ last.err = None) =>
        /\ GetFilePathErr(baseExists, uploadsExists, files, last.ret) = None
        /\ GetFilePathErr(baseExists, uploadsExists, files, last.path) = NotFoundError

\* C2 amended: after a renameFile that succeeded, getFilePath of the new
\* path succeeds; getFilePath of the old path fails with NotFoundError
\* exactly when the new path differs from the old one, and succeeds when the
\* rename derived the old path again (same millisecond, same sanitized name).
C2_RenameRelocates ==
    (last.op = "renameFile" /\ last.err = None) =>
        /\ GetFilePathErr(baseExists, uploadsExists, files, last.ret) = None
        /\ last.ret # last.path =>
             GetFilePathErr(baseExists, uploadsExists, files, last.path) = NotFoundError
        /\ last.ret = last.path =>
             GetFilePathErr(baseExists, uploadsExists, files, last.path) = None

\* a rename to a new path has just succeeded
C2_Witness ==
    /\ last.op = "renameFile" /\ last.err = None
    /\ last.ret # last.path

\* C3: deleteFile never throws, whatever the path and the filesystem (file
\* there, file missing, volume refusing the unlink); a second deleteFile of
\* the same path right after the first changes nothing.
C3_DeleteNeverRaises ==
    [][last'.op = "deleteFile" =>
          /\ last'.err = None
          /\ (last.op = "deleteFile" /\ last.path = last'.path) =>
                /\ files' = files
                /\ baseExists' = baseExists /\ uploadsExists' = uploadsExists
                /\ ~last'.flag]_vars

\* a second deleteFile of a path, right after the one that removed the file
C3_Witness ==
    /\ last.op = "deleteFile" /\ last.note = "repeat-removed"
    /\ ~last.flag /\ last.err = None

\* C4 as stated: when the target does not exist, readFile fails with the
\* NotFoundError of getFilePath; ReadError is for a file that resolves and
\* cannot be read.
C4_Original ==
    last.op = "readFile" =>
        /\ GetFilePathErr(baseExists, uploadsExists, files, last.path) = NotFoundError
              => last.err = NotFoundError
        /\ (/\ GetFilePathErr(baseExists, uploadsExists, files, last.path) = None
            /\ ~ReadOk(files, FullPath(last.path))) => last.err = ReadError

\* C5: a renameFile that fails with RenameError leaves every file, with its
\* content, and both directories as they were.
C5_FailedRenameChangesNothing ==
    [][(last'.op = "renameFile" /\ last'.err = RenameError) =>
          /\ files' = files
          /\ baseExists' = baseExists /\ uploadsExists' = uploadsExists]_vars

\* a rename of a file that is there has just failed
C5_Witness ==
    /\ last.op = "renameFile" /\ last.err = RenameError
    /\ FullPath(last.path) \in DOMAIN files

\* index of the last dot of a string (0: none)
LastDot(s) ==
    IF \E i \in DOMAIN s : s[i] = "."
    THEN CHOOSE i \in DOMAIN s : s[i] = "." /\ \A j \in DOMAIN s : s[j] = "." => j <= i
    ELSE 0

\* the type C6 gives a name: that of the lowercased text after the last
\* dot, and the default for a name without a dot
ClaimedContentType(fileName) ==
    IF "." \in Range(fileName)
    THEN TypeOfExt(ToLowerCase(SubSeq(fileName, LastDot(fileName) + 1, Len(fileName))))
    ELSE "application/octet-stream"

\* C6 as stated: getContentType maps the lowercased extension to its MIME
\* type, and a name with an unrecognized extension or with no dot at all
\* ("pdf", "PNG") yields application/octet-stream.
C6_Original ==
    ctResult # "" => ctResult = ClaimedContentType(ctName)

\* C7: checkStorage never throws; it returns true when the base directory
\* is accessible, and otherwise what initializeStorage achieves; called right
\* after an initializeStorage that succeeded, it returns true.
C7_CheckStorage ==
    [][last'.op = "checkStorage" =>
          /\ last'.err = None
          /\ last'.flag \in BOOLEAN
          /\ baseExists => last'.flag /\ uploadsExists' = uploadsExists
          /\ ~baseExists =>
                /\ last'.flag = MkdirOk(uploadsExists, writable)
                /\ last'.flag = uploadsExists'
          /\ last'.flag = baseExists'
          /\ (last.op = "initializeStorage" /\ last.err = None) => last'.flag]_vars

\* checkStorage right after the initializeStorage that made the base directory
C7_Witness ==
    last.op = "checkStorage" /\ last.note = "fresh" /\ last.flag

\* C8: the name part of the path uploadFile or renameFile returns is as long
\* as the name given, equal to it where its character is in [a-zA-Z0-9.-]
\* and "_" elsewhere; nothing after "uploads/" is a separator, and the path
\* is an entry of the uploads folder itself.
C8_SanitizePositional ==
    (last.op \in {"uploadFile", "renameFile"} /\ last.err = None) =>
        /\ WellFormed(last.ret)
        /\ LET part == NamePart(last.ret) IN
             /\ Len(part) = Len(last.name)
             /\ \A i \in DOMAIN last.name :
                   part[i] = IF last.name[i] \in AllowedChars THEN last.name[i] ELSE "_"
        /\ Sep \notin Range(AfterUploads(last.ret))
        /\ Dirname(FullPath(last.ret)) = UploadsFolder

\* a rename to a name with a separator in it has just succeeded
C8_Witness ==
    /\ last.op = "renameFile" /\ last.err = None
    /\ Sep \in Range(last.name)

\* C9 as stated: uploadFile, deleteFile and renameFile each have the uploads
\* folder created before they act, also when it was missing.
C9_Original ==
    [][last'.op \in {"uploadFile", "deleteFile", "renameFile"} => uploadsExists']_vars

\* C9 amended: uploadFile alone runs initializeStorage first, so the uploads
\* folder exists when its write is issued; deleteFile and renameFile issue
\* their unlink and rename without creating anything.
C9_OnlyUploadEnsures ==
    [][/\ last'.op = "uploadFile" => uploadsExists
       /\ last'.op \in {"deleteFile", "renameFile"} =>
             /\ uploadsExists' = uploadsExists
             /\ baseExists' = baseExists]_vars

\* an upload that found the uploads folder missing has written its file
C9_Witness ==
    /\ last.op = "uploadFile" /\ last.err = None
    /\ calls[last.call].made

\* C10: two uploads return different paths when their timestamps or their
\* sanitized names differ and the same path otherwise; a write on a writable
\* volume succeeds whether or not the path already holds a file, and leaves
\* the buffer of the call whose write it was.
C10_TimestampOnlyGuard ==
    [][/\ \A c, d \in Calls :
             (/\ calls'[c].pc = "done" /\ calls'[c].err = None
              /\ calls'[d].pc = "done" /\ calls'[d].err = None) =>
                 (calls'[c].ret = calls'[d].ret <=>
                     /\ calls'[c].timestamp = calls'[d].timestamp
                     /\ Sanitize(calls'[c].fileName) = Sanitize(calls'[d].fileName))
       /\ \A c \in Calls :
             (calls[c].pc = "write" /\ calls'[c].pc = "done" /\ writable) =>
                 /\ calls'[c].err = None
                 /\ FullPath(calls'[c].ret) \in DOMAIN files'
                 /\ files'[FullPath(calls'[c].ret)] = calls[c].buffer]_vars

\* two uploads of different names and buffers in the same millisecond both
\* returned the same path; the file holds what the second one wrote
C10_Witness ==
    /\ calls[1].pc = "done" /\ calls[1].err = None
    /\ calls[2].pc = "done" /\ calls[2].err = None
    /\ calls[1].ret = calls[2].ret
    /\ calls[1].fileName # calls[2].fileName
    /\ calls[1].buffer # calls[2].buffer
    /\ last.op = "uploadFile" /\ last.call = 2
    /\ files[FullPath(calls[2].ret)] = calls[2].buffer

====
